---- MODULE Spec2Model ----
(***************************************************************************)
(* Model of the wishlist contract (src/src/lib.rs, src/src/user.rs).       *)
(*                                                                         *)
(* The contract keeps one User (a Vec<Vehicle>) per account in a LookupMap *)
(* and settles the storage cost of every mutation against the deposit      *)
(* attached to the call.  A call runs alone (the host serialises calls);   *)
(* pc is the position inside the running call, so that the order of the    *)
(* LookupMap insert and the settlement is visible.                         *)
(*                                                                         *)
(* TLC integers are 32 bits wide, so the widths of u32/u64/u128/f64 and    *)
(* the serialised sizes are scaled down; the arithmetic keeps its shape    *)
(* (checked_mul against U128Max, subtraction of u64 counters, u64 -> f64). *)
(***************************************************************************)
EXTENDS Integers, Sequences, FiniteSets, TLC

VARIABLES
    users,              \* Wishlist.users : LookupMap<AccountId, User>, a partial function
    storage_byte_cost,  \* env::storage_byte_cost(), fixed by the host
    pc,                 \* position of the running call ("idle" between calls)
    call,               \* the running call: method, predecessor, deposit, arguments, locals
    result,             \* what the call returned, or the panic that ended it
    transfers,          \* Promise transfers created by the running call, in order
    committed,          \* host: the users map as of the start of the running call
    added,              \* history: per account without a delete so far, the vehicles of its completed add_car calls
    deleted,            \* history: the accounts that completed a delete_car removing an item
    adders,             \* history: the accounts that completed an add_car
    puts,               \* history: the LookupMap inserts made by the running call so far
    trip                \* history: the add_car just completed, then the delete_car undoing it
                        \* (kept only across the delete_car and the read_wishlist that follow)

vars == <<users, storage_byte_cost, pc, call, result, transfers, committed, added, deleted,
          adders, puts, trip>>

----------------------------------------------------------------------------
(* Bounds of the model and scaled widths *)

MaxItems == 3          \* add_car is offered while fewer vehicles than this are stored in all
MaxDeposit == 13       \* attached deposits 0..MaxDeposit, and U128Max
U32Max == 4            \* scaled u32::MAX (start, limit)
U64Max == 63           \* scaled u64::MAX (storage counters, id)
U128Max == 255         \* scaled u128::MAX (deposit, byte cost, storage fee)
F64MantissaBits == 2   \* scaled 53: the integers up to 2^F64MantissaBits are exact in f64
F64MaxExact == 2 ^ F64MantissaBits

Accounts == {"alice_near", "bob_near"}
Images == {"img.jpg"}
Names == {"Toyota"}
Models == {"RAV4", "Yaris"}
Mileages == {10000}
Years == {"2022"}
CarPrices == {F64MaxExact, F64MaxExact + 1}
Deposits == (0..MaxDeposit) \cup {U128Max}
StorageByteCosts == {0, 1, 25, 60}
Ids == (0..(MaxItems + 1)) \cup {U64Max}
Pages == 0..U32Max
Amounts == {0, 1, U128Max}

Min(a, b) == IF a < b THEN a ELSE b

----------------------------------------------------------------------------
(* Vehicle (src/vehicle.rs is not part of the sources: a plain value)      *)

\* `price as f64` (lib.rs:59,77): round to nearest, ties to even, with scaled precision.
\* Exact up to F64MaxExact; above it (and below 2*F64MaxExact) only even integers exist.
AsF64(price) ==
    IF price <= F64MaxExact \/ price % 2 = 0 THEN price
    ELSE IF ((price - 1) \div 2) % 2 = 0 THEN price - 1 ELSE price + 1

Vehicle_new(image, name, model, mileage, year, price) ==
    [image |-> image, name |-> name, model |-> model,
     mileage |-> mileage, year |-> year, price |-> price]

NoVehicle == Vehicle_new("", "", "", 0, "", 0)

----------------------------------------------------------------------------
(* User (src/src/user.rs): the wishlist Vec<Vehicle> as a sequence          *)

new_user == << >>

\* Faulty variant of add: the new vehicle is put in front
add_front(wishlist, image, name, model, mileage, year, price) ==
    <<Vehicle_new(image, name, model, mileage, year, price)>> \o wishlist

add(wishlist, image, name, model, mileage, year, price) ==
    Append(wishlist, Vehicle_new(image, name, model, mileage, year, price))

\* Faulty variant of show: limit taken as the end index instead of a count
show_end_index(wishlist, start, limit) ==
    LET n == Len(wishlist)
        end == Min(limit, n)
    IN  [i \in 1..(IF end > start THEN end - start ELSE 0) |-> wishlist[start + i]]

\* iter().skip(start).take(limit).cloned().collect()
show(wishlist, start, limit) ==
    LET n == Len(wishlist)
        avail == IF start >= n THEN 0 ELSE n - start
        k == Min(limit, avail)
    IN  [i \in 1..k |-> wishlist[start + i]]

\* Faulty variant of remove_asserts: the last index is rejected
remove_asserts_off_by_one(wishlist, index) ==
    LET size == Len(wishlist) IN size > 0 /\ index + 1 < size

\* assert!(size > 0 && index < size, "Invalid car id!")
remove_asserts(wishlist, index) ==
    LET size == Len(wishlist) IN size > 0 /\ index < size

\* Vec::remove(index): the element at index (0-based), the rest shifted down by one
remove_vehicle(wishlist, index) == wishlist[index + 1]

\* Faulty variant of remove_rest: Vec::swap_remove, the last element fills the hole
remove_rest_swap(wishlist, index) ==
    [i \in 1..(Len(wishlist) - 1) |->
        IF i = index + 1 THEN wishlist[Len(wishlist)] ELSE wishlist[i]]

remove_rest(wishlist, index) ==
    [i \in 1..(Len(wishlist) - 1) |-> IF i <= index THEN wishlist[i] ELSE wishlist[i + 1]]

----------------------------------------------------------------------------
(* LookupMap and the host's storage counter                                 *)

contains(map, key) == key \in DOMAIN map

\* Faulty variant of insert: the record of an emptied wishlist is dropped
insert_prune(map, key, value) ==
    IF value = << >>
    THEN [k \in (DOMAIN map) \ {key} |-> map[k]]
    ELSE [k \in (DOMAIN map) \cup {key} |-> IF k = key THEN value ELSE map[k]]

\* LookupMap::insert: unconditional overwrite of the value under key
insert(map, key, value) ==
    [k \in (DOMAIN map) \cup {key} |-> IF k = key THEN value ELSE map[k]]

\* Serialised sizes (scaled): record = key + per-record overhead, Vec length prefix,
\* vehicle = fixed fields + the bytes of its strings.
RecordBytes == 2
VecLenBytes == 4
VehicleBytes(v) == IF v.model = "RAV4" THEN 5 ELSE 6

RECURSIVE WishlistBytes(_)
WishlistBytes(wishlist) ==
    IF wishlist = << >> THEN VecLenBytes
    ELSE VehicleBytes(Head(wishlist)) + WishlistBytes(Tail(wishlist))

RECURSIVE MapBytes(_, _)
MapBytes(map, keys) ==
    IF keys = {} THEN 0
    ELSE LET k == CHOOSE x \in keys : TRUE
         IN  RecordBytes + WishlistBytes(map[k]) + MapBytes(map, keys \ {k})

\* env::storage_usage(): grows and shrinks with the persisted records only
storage_usage(map) == MapBytes(map, DOMAIN map)

RECURSIVE CountItems(_, _)
CountItems(map, keys) ==
    IF keys = {} THEN 0
    ELSE LET k == CHOOSE x \in keys : TRUE
         IN  Len(map[k]) + CountItems(map, keys \ {k})

----------------------------------------------------------------------------
(* Settlement arithmetic                                                    *)

\* u64 subtraction a - b.  When b > a the build decides: a panic with overflow
\* checks on, the wrapped value with them off.
sub_u64(a, b) ==
    IF a >= b THEN {[panic |-> FALSE, value |-> a - b]}
    ELSE {[panic |-> TRUE, value |-> 0],
          [panic |-> FALSE, value |-> a - b + U64Max + 1]}

\* u128::checked_mul: Some(a * b), or None on overflow (Option as a set of at most one)
checked_mul(a, b) == IF a * b > U128Max THEN {} ELSE {a * b}

Returned(amounts) == [panic |-> "", transfers |-> amounts]
Panicked(msg) == [panic |-> msg, transfers |-> << >>]

\* Faulty variant of pay_for_storage: the deposit must exceed the fee
pay_for_storage_strict(initial_storage, attached_storage_cost, current_storage, storage_cost) ==
    { IF storage_used.panic THEN Panicked("attempt to subtract with overflow")
      ELSE LET total == checked_mul(storage_cost, storage_used.value)
           IN  IF total = {} THEN Returned(<< >>)
               ELSE LET total_storage_cost == CHOOSE t \in total : TRUE
                    IN  IF ~(attached_storage_cost > total_storage_cost)
                        THEN Panicked("Insufficient funds!")
                        ELSE Returned(<<attached_storage_cost - total_storage_cost>>)
      : storage_used \in sub_u64(current_storage, initial_storage) }

\* pay_for_storage (lib.rs:140-162): the ways the function can end, given the
\* host's counters.  Each outcome is a panic message ("" for a normal return)
\* and the amounts handed to return_excess_tokens.
pay_for_storage(initial_storage, attached_storage_cost, current_storage, storage_cost) ==
    { IF storage_used.panic THEN Panicked("attempt to subtract with overflow")
      ELSE LET total == checked_mul(storage_cost, storage_used.value)
           IN  IF total = {} THEN Returned(<< >>)
               ELSE LET total_storage_cost == CHOOSE t \in total : TRUE
                    IN  IF ~(attached_storage_cost >= total_storage_cost)
                        THEN Panicked("Insufficient funds!")
                        ELSE LET excess_balance == attached_storage_cost - total_storage_cost
                             IN  IF excess_balance > 0 THEN Returned(<<excess_balance>>)
                                 ELSE Returned(<< >>)
      : storage_used \in sub_u64(current_storage, initial_storage) }

\* Faulty variant of refund_storage_cost: the released bytes are transferred unpriced
refund_storage_cost_unpriced(initial_storage, current_storage, storage_unit_price) ==
    { IF storage_released.panic THEN Panicked("attempt to subtract with overflow")
      ELSE Returned(<<storage_released.value>>)
      : storage_released \in sub_u64(initial_storage, current_storage) }

\* Faulty variant of refund_storage_cost: the counters subtracted the other way round
refund_storage_cost_swapped(initial_storage, current_storage, storage_unit_price) ==
    { IF storage_released.panic THEN Panicked("attempt to subtract with overflow")
      ELSE LET refundable == checked_mul(storage_unit_price, storage_released.value)
           IN  IF refundable = {} THEN Panicked("Error calculating storage cost")
               ELSE Returned(<<CHOOSE t \in refundable : TRUE>>)
      : storage_released \in sub_u64(current_storage, initial_storage) }

\* refund_storage_cost (lib.rs:178-195)
refund_storage_cost(initial_storage, current_storage, storage_unit_price) ==
    { IF storage_released.panic THEN Panicked("attempt to subtract with overflow")
      ELSE LET refundable == checked_mul(storage_unit_price, storage_released.value)
           IN  IF refundable = {} THEN Panicked("Error calculating storage cost")
               ELSE Returned(<<CHOOSE t \in refundable : TRUE>>)
      : storage_released \in sub_u64(initial_storage, current_storage) }

\* Faulty variant of return_excess_tokens: the transfer goes to one fixed account
return_excess_tokens_fixed(signer, excess_balance) ==
    [to |-> "alice_near", amount |-> excess_balance]

\* return_excess_tokens (lib.rs:167-173): Promise::new(predecessor).transfer(amount)
return_excess_tokens(signer, excess_balance) == [to |-> signer, amount |-> excess_balance]

Promises(signer, amounts) ==
    [i \in 1..Len(amounts) |-> return_excess_tokens(signer, amounts[i])]

----------------------------------------------------------------------------
(* Calls                                                                    *)

NoCall ==
    [method |-> "", predecessor |-> "", deposit |-> 0, initial_storage |-> 0,
     image |-> "", name |-> "", model |-> "", mileage |-> 0, year |-> "", price |-> 0,
     id |-> 0, start |-> 0, limit |-> 0, excess_balance |-> 0]

NoResult == [status |-> "", msg |-> "", some |-> FALSE, vehicle |-> NoVehicle, vehicles |-> << >>]

Unit == [NoResult EXCEPT !.status = "ok"]
Panic(msg) == [NoResult EXCEPT !.status = "panic", !.msg = msg]
SomeVehicle(v) == [NoResult EXCEPT !.status = "ok", !.some = TRUE, !.vehicle = v]
SomeVehicles(vs) == [NoResult EXCEPT !.status = "ok", !.some = TRUE, !.vehicles = vs]
None == [NoResult EXCEPT !.status = "ok"]

\* no add_car has just completed
NoTrip == [stage |-> "", signer |-> "", before |-> << >>, vehicle |-> NoVehicle]

Init ==
    /\ users = << >>
    /\ storage_byte_cost \in StorageByteCosts
    /\ pc = "idle"
    /\ call = NoCall
    /\ result = NoResult
    /\ transfers = << >>
    /\ committed = << >>
    /\ added = [a \in Accounts |-> << >>]
    /\ deleted = {}
    /\ adders = {}
    /\ puts = 0
    /\ trip = NoTrip

\* add_car, lines 40-48: predecessor, attached deposit, storage snapshot
AddCar(signer, deposit, image, name, model, mileage, year, price) ==
    /\ pc = "idle"
    /\ CountItems(users, DOMAIN users) < MaxItems
    /\ pc' = "add_car"
    /\ call' = [NoCall EXCEPT !.method = "add_car", !.predecessor = signer,
                              !.deposit = deposit, !.initial_storage = storage_usage(users),
                              !.image = image, !.name = name, !.model = model,
                              !.mileage = mileage, !.year = year, !.price = price]
    /\ trip' = NoTrip
    /\ UNCHANGED <<users, storage_byte_cost, result, transfers, committed, added, deleted, adders>>
    /\ UNCHANGED puts

\* add_car, lines 51-62 and 66-81: get or new_user, add, insert
AddCarInsert ==
    /\ pc = "add_car"
    /\ LET signer == call.predecessor
           user == IF contains(users, signer) THEN users[signer] ELSE new_user
       IN  users' = insert(users, signer,
                           add(user, call.image, call.name, call.model, call.mileage,
                               call.year, AsF64(call.price)))
    /\ pc' = "pay_for_storage"
    /\ puts' = puts + 1
    /\ UNCHANGED <<storage_byte_cost, call, result, transfers, committed, added, deleted, adders>>
    /\ UNCHANGED trip

\* Faulty variant of PayForStorage: the insert is undone when the settlement panics
PayForStorage_rollback ==
    /\ pc = "pay_for_storage"
    /\ \E out \in pay_for_storage(call.initial_storage, call.deposit,
                                  storage_usage(users), storage_byte_cost) :
          /\ transfers' = transfers \o Promises(call.predecessor, out.transfers)
          /\ IF out.panic = ""
             THEN pc' = "done" /\ result' = Unit /\ users' = users
             ELSE pc' = "panicked" /\ result' = Panic(out.panic) /\ users' = committed
    /\ UNCHANGED <<storage_byte_cost, call, committed, added, deleted, adders>>
    /\ UNCHANGED <<puts, trip>>

\* add_car, lines 65 and 84: settle the storage cost
PayForStorage ==
    /\ pc = "pay_for_storage"
    /\ \E out \in pay_for_storage(call.initial_storage, call.deposit,
                                  storage_usage(users), storage_byte_cost) :
          /\ transfers' = transfers \o Promises(call.predecessor, out.transfers)
          /\ IF out.panic = ""
             THEN pc' = "done" /\ result' = Unit
             ELSE pc' = "panicked" /\ result' = Panic(out.panic)
    /\ UNCHANGED <<users, storage_byte_cost, call, committed, added, deleted, adders>>
    /\ UNCHANGED <<puts, trip>>

\* Faulty variant of read_wishlist: None for an account without a record
read_wishlist_null(map, signer, start, limit) ==
    IF contains(map, signer)
    THEN SomeVehicles(show(map[signer], start, limit))
    ELSE None

\* read_wishlist (lib.rs:96-104): Some(user.show(start, limit)), or Some(vec![])
read_wishlist(map, signer, start, limit) ==
    IF contains(map, signer)
    THEN SomeVehicles(show(map[signer], start, limit))
    ELSE SomeVehicles(<< >>)

\* Faulty variant of ReadWishlist: an account without a record gets a new user written
ReadWishlist_creates(signer, start, limit) ==
    /\ pc = "idle"
    /\ pc' = "done"
    /\ call' = [NoCall EXCEPT !.method = "read_wishlist", !.predecessor = signer,
                              !.start = start, !.limit = limit]
    /\ result' = read_wishlist(users, signer, start, limit)
    /\ users' = IF contains(users, signer) THEN users ELSE insert(users, signer, new_user)
    /\ puts' = IF contains(users, signer) THEN puts ELSE puts + 1
    /\ trip' = IF trip.stage = "deleted" THEN trip ELSE NoTrip
    /\ UNCHANGED <<storage_byte_cost, transfers, committed, added, deleted, adders>>

\* read_wishlist (lib.rs:91-105), a &self method: nothing is written
ReadWishlist(signer, start, limit) ==
    /\ pc = "idle"
    /\ pc' = "done"
    /\ call' = [NoCall EXCEPT !.method = "read_wishlist", !.predecessor = signer,
                              !.start = start, !.limit = limit]
    /\ result' = read_wishlist(users, signer, start, limit)
    /\ trip' = IF trip.stage = "deleted" THEN trip ELSE NoTrip
    /\ UNCHANGED <<users, storage_byte_cost, transfers, committed, added, deleted, adders>>
    /\ UNCHANGED puts

\* delete_car, lines 110-115: predecessor, storage snapshot
DeleteCar(signer, id) ==
    /\ pc = "idle"
    /\ pc' = "delete_car"
    /\ call' = [NoCall EXCEPT !.method = "delete_car", !.predecessor = signer,
                              !.initial_storage = storage_usage(users), !.id = id]
    /\ trip' = IF trip.stage = "added" THEN trip ELSE NoTrip
    /\ UNCHANGED <<users, storage_byte_cost, result, transfers, committed, added, deleted, adders>>
    /\ UNCHANGED puts

\* Faulty variant of DeleteCarRemove: the user is written back before the index is
\* checked
DeleteCarRemove_write_first ==
    /\ pc = "delete_car"
    /\ LET signer == call.predecessor IN
       IF ~contains(users, signer)
       THEN /\ pc' = "done"
            /\ result' = None
            /\ UNCHANGED <<users, puts>>
       ELSE IF ~remove_asserts(users[signer], call.id)
       THEN /\ pc' = "panicked"
            /\ result' = Panic("Invalid car id!")
            /\ users' = insert(users, signer, users[signer])
            /\ puts' = puts + 1
       ELSE /\ pc' = "refund_storage_cost"
            /\ result' = SomeVehicle(remove_vehicle(users[signer], call.id))
            /\ users' = insert(users, signer, remove_rest(users[signer], call.id))
            /\ puts' = puts + 1
    /\ UNCHANGED <<storage_byte_cost, call, transfers, committed, added, deleted, adders>>
    /\ UNCHANGED trip

\* Faulty variant of DeleteCarRemove: an account without a record gets a new user
\* written before None is returned
DeleteCarRemove_creates ==
    /\ pc = "delete_car"
    /\ LET signer == call.predecessor IN
       IF ~contains(users, signer)
       THEN /\ pc' = "done"
            /\ result' = None
            /\ users' = insert(users, signer, new_user)
            /\ puts' = puts + 1
       ELSE IF ~remove_asserts(users[signer], call.id)
       THEN /\ pc' = "panicked"
            /\ result' = Panic("Invalid car id!")
            /\ UNCHANGED <<users, puts>>
       ELSE /\ pc' = "refund_storage_cost"
            /\ result' = SomeVehicle(remove_vehicle(users[signer], call.id))
            /\ users' = insert(users, signer, remove_rest(users[signer], call.id))
            /\ puts' = puts + 1
    /\ UNCHANGED <<storage_byte_cost, call, transfers, committed, added, deleted, adders>>
    /\ UNCHANGED trip

\* Faulty variant of DeleteCarRemove: an account without a record is given a new
\* empty user, as in add_car
DeleteCarRemove_new_user ==
    /\ pc = "delete_car"
    /\ LET signer == call.predecessor
           user == IF contains(users, signer) THEN users[signer] ELSE << >>
       IN
       IF ~(Len(user) > 0 /\ call.id < Len(user))
       THEN /\ pc' = "panicked"
            /\ result' = [status |-> "panic", msg |-> "Invalid car id!", some |-> FALSE,
                           vehicle |-> NoVehicle, vehicles |-> << >>]
            /\ UNCHANGED <<users, puts>>
       ELSE /\ pc' = "refund_storage_cost"
            /\ result' = [status |-> "ok", msg |-> "", some |-> TRUE,
                           vehicle |-> user[call.id + 1], vehicles |-> << >>]
            /\ users' = [k \in (DOMAIN users) \cup {signer} |->
                            IF k = signer
                            THEN [i \in 1..(Len(user) - 1) |->
                                     IF i <= call.id THEN user[i] ELSE user[i + 1]]
                            ELSE users[k]]
            /\ puts' = puts + 1
    /\ UNCHANGED <<storage_byte_cost, call, transfers, committed, added, deleted, adders>>
    /\ UNCHANGED trip

\* delete_car, lines 118-123 and 130-133: get, remove, insert; None without a record
DeleteCarRemove ==
    /\ pc = "delete_car"
    /\ LET signer == call.predecessor IN
       IF ~contains(users, signer)
       THEN /\ pc' = "done"
            /\ result' = None
            /\ UNCHANGED <<users, puts>>
       ELSE IF ~remove_asserts(users[signer], call.id)
       THEN /\ pc' = "panicked"
            /\ result' = Panic("Invalid car id!")
            /\ UNCHANGED <<users, puts>>
       ELSE /\ pc' = "refund_storage_cost"
            /\ result' = SomeVehicle(remove_vehicle(users[signer], call.id))
            /\ users' = insert(users, signer, remove_rest(users[signer], call.id))
            /\ puts' = puts + 1
    /\ UNCHANGED <<storage_byte_cost, call, transfers, committed, added, deleted, adders>>
    /\ UNCHANGED trip

\* delete_car, lines 126-129: refund the released storage, return the vehicle
RefundStorageCost ==
    /\ pc = "refund_storage_cost"
    /\ \E out \in refund_storage_cost(call.initial_storage, storage_usage(users),
                                      storage_byte_cost) :
          /\ transfers' = transfers \o Promises(call.predecessor, out.transfers)
          /\ IF out.panic = ""
             THEN pc' = "done" /\ UNCHANGED result
             ELSE pc' = "panicked" /\ result' = Panic(out.panic)
    /\ UNCHANGED <<users, storage_byte_cost, call, committed, added, deleted, adders>>
    /\ UNCHANGED <<puts, trip>>

\* return_excess_tokens is `pub` inside the #[near_bindgen] impl (lib.rs:34-35, 167):
\* it is exported and any account can call it with an amount
ReturnExcessTokens(signer, excess_balance) ==
    /\ pc = "idle"
    /\ pc' = "done"
    /\ call' = [NoCall EXCEPT !.method = "return_excess_tokens", !.predecessor = signer,
                              !.excess_balance = excess_balance]
    /\ result' = Unit
    /\ transfers' = <<return_excess_tokens(signer, excess_balance)>>
    /\ trip' = NoTrip
    /\ UNCHANGED <<users, storage_byte_cost, committed, added, deleted, adders>>
    /\ UNCHANGED puts

\* The host ends the call: a call that returned keeps its writes, a call that
\* panicked has its writes and promises discarded.
HostReturn ==
    /\ pc \in {"done", "panicked"}
    /\ pc' = "idle"
    /\ call' = NoCall
    /\ result' = NoResult
    /\ transfers' = << >>
    /\ puts' = 0
    /\ IF pc = "done"
       THEN /\ users' = users
            /\ committed' = users
            /\ added' = IF call.method = "add_car" /\ call.predecessor \notin deleted
                        THEN [added EXCEPT ![call.predecessor] =
                                 Append(@, Vehicle_new(call.image, call.name, call.model,
                                                       call.mileage, call.year,
                                                       AsF64(call.price)))]
                        ELSE IF call.method = "delete_car" /\ result.some
                        THEN [added EXCEPT ![call.predecessor] = << >>]
                        ELSE added
            /\ deleted' = IF call.method = "delete_car" /\ result.some
                          THEN deleted \cup {call.predecessor}
                          ELSE deleted
            /\ adders' = IF call.method = "add_car"
                         THEN adders \cup {call.predecessor}
                         ELSE adders
            /\ trip' = IF call.method = "add_car"
                       THEN [stage |-> "added", signer |-> call.predecessor,
                             before |-> IF contains(committed, call.predecessor)
                                        THEN committed[call.predecessor] ELSE << >>,
                             vehicle |-> Vehicle_new(call.image, call.name, call.model,
                                                     call.mileage, call.year,
                                                     AsF64(call.price))]
                       ELSE IF /\ call.method = "delete_car" /\ result.some
                               /\ trip.stage = "added" /\ trip.signer = call.predecessor
                               /\ call.id = Len(trip.before)
                       THEN [trip EXCEPT !.stage = "deleted"]
                       ELSE NoTrip
       ELSE /\ users' = committed
            /\ trip' = NoTrip
            /\ UNCHANGED <<committed, added, deleted, adders>>
    /\ UNCHANGED storage_byte_cost

Next ==
    \/ \E signer \in Accounts, deposit \in Deposits, image \in Images, name \in Names,
          model \in Models, mileage \in Mileages, year \in Years, price \in CarPrices :
          AddCar(signer, deposit, image, name, model, mileage, year, price)
    \/ AddCarInsert
    \/ PayForStorage
    \/ \E signer \in Accounts, start \in Pages, limit \in Pages :
          ReadWishlist(signer, start, limit)
    \/ \E signer \in Accounts, id \in Ids : DeleteCar(signer, id)
    \/ DeleteCarRemove
    \/ RefundStorageCost
    \/ \E signer \in Accounts, excess_balance \in Amounts :
          ReturnExcessTokens(signer, excess_balance)
    \/ HostReturn

Spec == Init /\ [][Next]_vars

----------------------------------------------------------------------------
(* Properties                                                               *)

Ended == pc \in {"done", "panicked"}
Signer == call.predecessor
\* the byte counters of the running call: before its mutation, and now
InitialBytes == call.initial_storage
CurrentBytes == storage_usage(users)
TransferTo(signer, amount) == [to |-> signer, amount |-> amount]

\* C1: an add_car whose storage fee p*d does not overflow ends, for a deposit equal
\* to the fee, normally and without any transfer; for a deposit above the fee,
\* normally with exactly one transfer of the excess to the caller; for a deposit
\* below the fee, with the panic "Insufficient funds!".
C1_ChargeCorrectness ==
    (Ended /\ call.method = "add_car" /\ CurrentBytes >= InitialBytes
       /\ storage_byte_cost * (CurrentBytes - InitialBytes) <= U128Max) =>
    LET fee == storage_byte_cost * (CurrentBytes - InitialBytes) IN
      /\ call.deposit = fee => pc = "done" /\ result = Unit /\ transfers = << >>
      /\ call.deposit > fee =>
            pc = "done" /\ result = Unit
            /\ transfers = <<TransferTo(Signer, call.deposit - fee)>>
      /\ call.deposit < fee =>
            pc = "panicked" /\ result = Panic("Insufficient funds!") /\ transfers = << >>

C1_Witness ==
    /\ pc = "done" /\ call.method = "add_car"
    /\ storage_byte_cost * (CurrentBytes - InitialBytes) \in 1..U128Max
    /\ call.deposit > storage_byte_cost * (CurrentBytes - InitialBytes)
    /\ Len(transfers) = 1

\* C2: a delete_car that removed a vehicle and returned made exactly one transfer,
\* to the caller, of storage_byte_cost * (initial - current) bytes' worth, whatever
\* was attached (the call reads no deposit).
C2_RefundOnShrink ==
    (pc = "done" /\ call.method = "delete_car" /\ result.some) =>
      /\ InitialBytes >= CurrentBytes
      /\ transfers = <<TransferTo(Signer, storage_byte_cost * (InitialBytes - CurrentBytes))>>

C2_Witness ==
    /\ pc = "done" /\ call.method = "delete_car" /\ result.some
    /\ Len(transfers) = 1 /\ transfers[1].amount > 1

\* C3 (as claimed): a call whose fee or refund storage_byte_cost * delta overflows
\* u128 is aborted, in add_car as well as in delete_car.
C3_OverflowIsFatal ==
    (call.method \in {"add_car", "delete_car"} /\ Ended
       /\ (IF call.method = "add_car"
           THEN storage_byte_cost * (CurrentBytes - InitialBytes)
           ELSE storage_byte_cost * (InitialBytes - CurrentBytes)) > U128Max)
    => pc = "panicked"

\* C4 (as claimed): every transfer is the excess refund of an add_car or the
\* release refund of a delete_car.
C4_TransfersOnlyFromSettlement ==
    \A i \in 1..Len(transfers) :
       \/ /\ call.method = "add_car"
          /\ transfers[i].amount
                = call.deposit - storage_byte_cost * (CurrentBytes - InitialBytes)
       \/ /\ call.method = "delete_car"
          /\ transfers[i].amount = storage_byte_cost * (InitialBytes - CurrentBytes)

\* C5: delete_car by an account that has a record with n vehicles (n >= 0) panics
\* with "Invalid car id!" for every id >= n, and for no id < n.
C5_IndexValidation ==
    (call.method = "delete_car" /\ pc \in {"refund_storage_cost", "done", "panicked"}
       /\ contains(committed, Signer)) =>
    LET n == Len(committed[Signer]) IN
      /\ call.id >= n => pc = "panicked" /\ result = Panic("Invalid car id!")
      /\ call.id < n => result.msg # "Invalid car id!"

C5_Witness ==
    /\ call.method = "delete_car" /\ pc = "panicked"
    /\ contains(committed, Signer) /\ committed[Signer] = << >>
    /\ call.id = 0 /\ result = Panic("Invalid car id!")

\* C6: delete_car(i) on a wishlist of length n > i leaves a wishlist of length n-1
\* with the vehicles before i in place and the vehicles after i one index lower,
\* and returns the vehicle that was at i.
C6_RemovalRenumbering ==
    (call.method = "delete_car" /\ pc \in {"refund_storage_cost", "done"} /\ result.some) =>
    LET old == committed[Signer]
        new == users[Signer]
        i == call.id
    IN  /\ i < Len(old)
        /\ Len(new) = Len(old) - 1
        /\ \A j \in 0..(Len(old) - 1) :
              /\ j < i => new[j + 1] = old[j + 1]
              /\ j > i => new[j] = old[j + 1]
        /\ result.vehicle = old[i + 1]

C6_Witness ==
    /\ call.method = "delete_car" /\ pc = "done" /\ result.some
    /\ Len(committed[Signer]) = 3 /\ call.id = 1
    /\ committed[Signer][1] # committed[Signer][3]

\* C7: for an account that only added (no delete_car removed anything of it),
\* read_wishlist(0, N) with N >= the number of its completed add_car calls returns
\* the vehicles of those calls, one per call, in the order of the calls.
C7_AppendReadRoundTrip ==
    (call.method = "read_wishlist" /\ pc = "done" /\ Signer \notin deleted
       /\ call.start = 0 /\ call.limit >= Len(added[Signer])) =>
    result = SomeVehicles(added[Signer])

C7_Witness ==
    /\ call.method = "read_wishlist" /\ pc = "done" /\ Signer \notin deleted
    /\ call.start = 0 /\ call.limit > Len(added[Signer])
    /\ Len(added[Signer]) = 3 /\ added[Signer][1] # added[Signer][2]
    /\ result.vehicles = added[Signer]

\* C8: read_wishlist(start, limit) by an account with n vehicles returns, for all
\* start and limit, the vehicles at indices start .. min(start+limit, n)-1 in
\* order: nothing when start >= n, n - start of them when start + limit > n.
C8_PaginationBounds ==
    (call.method = "read_wishlist" /\ pc \in {"done", "panicked"}
       /\ contains(users, Signer)) =>
    LET w == users[Signer]
        n == Len(w)
        end == Min(call.start + call.limit, n)
    IN  /\ pc = "done" /\ result.status = "ok" /\ result.some
        /\ result.vehicles = SubSeq(w, call.start + 1, end)
        /\ call.start >= n => result.vehicles = << >>
        /\ (call.start < n /\ call.start + call.limit > n) =>
              Len(result.vehicles) = n - call.start

C8_Witness ==
    /\ call.method = "read_wishlist" /\ pc = "done" /\ contains(users, Signer)
    /\ call.start = 1 /\ call.start + call.limit > U32Max
    /\ Len(users[Signer]) = 3 /\ Len(result.vehicles) = 2
    /\ result.vehicles[1] # users[Signer][1]

\* C9: an account that has a record keeps a record in every later state, also when
\* delete_car removed its last vehicle: the record then holds an empty wishlist,
\* and a further delete_car of the account panics with "Invalid car id!" and does
\* not return None.
C9_EmptyOwnersRetained ==
    [][\A a \in Accounts :
          contains(committed, a) =>
             /\ contains(committed', a) /\ contains(users', a)
             /\ (call'.method = "delete_car" /\ call'.predecessor = a
                   /\ committed'[a] = << >> /\ pc' \in {"done", "panicked"})
                => result' = Panic("Invalid car id!")]_vars

C9_Witness ==
    /\ call.method = "delete_car" /\ pc = "panicked" /\ Signer \in deleted
    /\ contains(users, Signer) /\ users[Signer] = << >>
    /\ result = Panic("Invalid car id!")

\* C10: delete_car by an account without a record returns None for every id; it
\* does not panic, writes nothing and makes no transfer.
C10_DeleteWithoutRecord ==
    (call.method = "delete_car" /\ pc # "delete_car" /\ ~contains(committed, Signer)) =>
      /\ pc = "done" /\ result = None
      /\ transfers = << >> /\ users = committed

C10_Witness ==
    /\ call.method = "delete_car" /\ pc = "done" /\ ~contains(committed, Signer)
    /\ call.id = U64Max /\ result = None /\ committed # << >>

\* C11: read_wishlist by an account without a record returns the empty sequence,
\* Some(vec![]), for every start and limit, and does not panic.
C11_ReadWithoutRecord ==
    (call.method = "read_wishlist" /\ ~contains(users, Signer)) =>
      pc = "done" /\ result = SomeVehicles(<< >>)

C11_Witness ==
    /\ call.method = "read_wishlist" /\ pc = "done" /\ ~contains(users, Signer)
    /\ users # << >> /\ call.start = 0 /\ call.limit = U32Max
    /\ result = SomeVehicles(<< >>)

\* C12: read_wishlist is a pure query.  The call ends in its one step, without
\* a LookupMap insert, a settlement position or a transfer, and leaves the users
\* map as it was, also once the host has ended the call; so the same call made
\* again right after it returns the same sequence.
C12_ReadIsPure ==
    [][/\ (pc = "idle" /\ call'.method = "read_wishlist") =>
             /\ pc' = "done" /\ users' = users /\ committed' = committed
             /\ puts' = 0 /\ transfers' = << >>
       /\ (pc = "done" /\ call.method = "read_wishlist") =>
             /\ pc' = "idle" /\ users' = users /\ committed' = users
             /\ read_wishlist(users', Signer, call.start, call.limit) = result]_vars

C12_Witness ==
    /\ call.method = "read_wishlist" /\ pc = "done" /\ contains(users, Signer)
    /\ Len(result.vehicles) = 2 /\ result.vehicles[1] # result.vehicles[2]
    /\ puts = 0 /\ transfers = << >> /\ users = committed

\* C13: records are created lazily.  An account has a record between calls only if
\* it completed an add_car; inside a call the only record of an account that never
\* completed one is the write of that account's own running add_car.  So neither
\* read_wishlist nor delete_car creates a record, and when an add_car of such an
\* account panics the account is without a record once the host has ended the call.
C13_LazyCreation ==
    [][/\ \A a \in Accounts :
            /\ contains(committed', a) => a \in adders'
            /\ (contains(users', a) /\ a \notin adders') =>
                  /\ call'.method = "add_car" /\ call'.predecessor = a
                  /\ pc' \in {"pay_for_storage", "done", "panicked"}
       /\ (pc = "panicked" /\ call.method = "add_car" /\ ~contains(committed, Signer)) =>
            ~contains(users', Signer) /\ ~contains(committed', Signer)]_vars

C13_Witness ==
    /\ pc = "panicked" /\ call.method = "add_car" /\ result = Panic("Insufficient funds!")
    /\ ~contains(committed, Signer) /\ Signer \notin adders
    /\ contains(users, Signer)

\* C14 (as claimed): a completed add_car by an account whose wishlist had length n,
\* followed by delete_car(n) of that account, returns the vehicle just added and
\* leaves the wishlist as it was before the add_car; for n = 0 the read_wishlist(0, 3)
\* that follows returns the empty sequence.
C14_AddDeleteRoundTrip ==
    /\ (call.method = "delete_car" /\ Ended /\ trip.stage = "added"
          /\ trip.signer = Signer /\ call.id = Len(trip.before)) =>
          /\ pc = "done" /\ result = SomeVehicle(trip.vehicle)
          /\ users[Signer] = trip.before
    /\ (call.method = "read_wishlist" /\ pc = "done" /\ trip.stage = "deleted"
          /\ trip.signer = Signer /\ trip.before = << >>
          /\ call.start = 0 /\ call.limit = 3) =>
          result = SomeVehicles(<< >>)

\* the caller's wishlist as of the start of the running call (empty without a record)
WishlistBefore == IF contains(committed, Signer) THEN committed[Signer] ELSE << >>
NewVehicle ==
    Vehicle_new(call.image, call.name, call.model, call.mileage, call.year, AsF64(call.price))

\* C15: in add_car the LookupMap insert of the wishlist with the new vehicle appended
\* comes before the payment check: when pay_for_storage is about to run, and when it
\* has panicked with "Insufficient funds!", the one insert of the call has been made
\* and the stored wishlist of the caller ends with the new vehicle; the contract
\* does not undo it.
C15_PersistBeforeCheck ==
    (call.method = "add_car"
       /\ (pc = "pay_for_storage"
           \/ (pc = "panicked" /\ result = Panic("Insufficient funds!")))) =>
      /\ puts = 1
      /\ contains(users, Signer)
      /\ users[Signer] = Append(WishlistBefore, NewVehicle)

C15_Witness ==
    /\ call.method = "add_car" /\ pc = "panicked" /\ result = Panic("Insufficient funds!")
    /\ Len(WishlistBefore) = 1 /\ Len(users[Signer]) = 2
    /\ users[Signer][2] = NewVehicle /\ users # committed

\* C16: a delete_car that panics with "Invalid car id!" does so before the insert
\* and before the refund: the call has made no LookupMap insert, the users map is
\* as it was at the start of the call, and no transfer was created.
C16_InvalidIndexFailsEarly ==
    (call.method = "delete_car" /\ pc = "panicked" /\ result = Panic("Invalid car id!")) =>
      puts = 0 /\ users = committed /\ transfers = << >>

C16_Witness ==
    /\ call.method = "delete_car" /\ pc = "panicked" /\ result = Panic("Invalid car id!")
    /\ contains(users, Signer) /\ Len(users[Signer]) = 1 /\ call.id = MaxItems + 1
    /\ puts = 0 /\ transfers = << >>

\* C17: the subtractions of the settlement do not underflow.  An add_car reaches,
\* and leaves, pay_for_storage with current >= initial storage; a delete_car
\* reaches, and leaves, refund_storage_cost with current <= initial storage; no call
\* ends by the overflow panic of a subtraction, and no transfer carries a wrapped
\* difference.  (storage_usage follows the persisted records only.)
C17_NoUnderflow ==
    /\ (call.method = "add_car" /\ pc \in {"pay_for_storage", "done", "panicked"}) =>
          CurrentBytes >= InitialBytes
    /\ (call.method = "delete_car" /\ puts = 1) => CurrentBytes <= InitialBytes
    /\ result.msg # "attempt to subtract with overflow"
    /\ (call.method = "delete_car" /\ pc = "done" /\ result.some) =>
          \A i \in 1..Len(transfers) :
             transfers[i].amount <= storage_byte_cost * InitialBytes

C17_Witness ==
    /\ call.method = "delete_car" /\ pc = "refund_storage_cost" /\ puts = 1
    /\ InitialBytes - CurrentBytes = 6 /\ CurrentBytes > 0

SameRecord(map1, map2, a) ==
    /\ contains(map1, a) <=> contains(map2, a)
    /\ contains(map1, a) => map1[a] = map2[a]

\* C18: an add_car or delete_car of one account leaves the record of every other
\* account (its presence and its wishlist) as it was at the start of the call, at
\* every position of the call and once the host has ended it, whether the call
\* returned or panicked; and every transfer a call creates goes to its caller.
C18_OwnerIsolation ==
    [][/\ call'.method \in {"add_car", "delete_car"} =>
             \A b \in Accounts \ {call'.predecessor} : SameRecord(users', committed', b)
       /\ \A i \in 1..Len(transfers') : transfers'[i].to = call'.predecessor
       /\ (call.method \in {"add_car", "delete_car"} /\ Ended) =>
             \A b \in Accounts \ {Signer} : SameRecord(users', committed, b)]_vars

C18_Witness ==
    /\ call.method = "add_car" /\ pc = "done" /\ Signer = "bob_near"
    /\ contains(users, "alice_near") /\ users["alice_near"] # << >>
    /\ contains(committed, "bob_near") /\ users["bob_near"] # committed["bob_near"]
    /\ Len(transfers) = 1 /\ transfers[1].to = "bob_near"

RECURSIVE SumAmounts(_)
SumAmounts(ts) == IF ts = << >> THEN 0 ELSE Head(ts).amount + SumAmounts(Tail(ts))

\* C19 (as claimed): settlement conserves funds.  Over a completed call the total the
\* contract has retained changes by the attached deposit minus the amounts it
\* transferred out, and the storage usage by the bytes the call wrote or released (a
\* panicked call changes neither: the host returns its deposit and discards its
\* writes and promises).  So retained = storage_byte_cost * (usage - usage at the
\* start) holds after every sequence of completed calls exactly if every completed
\* call keeps deposit - transfers = storage_byte_cost * (usage after - usage before).
C19_SettlementConserves ==
    pc = "done" =>
       call.deposit - SumAmounts(transfers)
          = storage_byte_cost * (storage_usage(users) - storage_usage(committed))

====
